---------------------------- MODULE Spec2Model ----------------------------
(***************************************************************************)
(* Model of velato's animation evaluation engine: the animated evaluators  *)
(* of runtime/model/animated.rs, the Fixed | Animated model values of      *)
(* runtime/model/mod.rs and the layer traversal that consumes them.        *)
(*                                                                         *)
(* Numbers.  The program computes in f32/f64.  The model computes in       *)
(* exact integer and rational arithmetic:                                  *)
(*   - a scalar property is an integer (degrees, percent, pixels);         *)
(*   - an interpolation weight is a rational tn/td and a tween is          *)
(*     a + ((b - a) * tn) \div td;                                         *)
(*   - an affine matrix is six integer numerators over one denominator;    *)
(*   - angles are multiples of 90 degrees, so sin and cos are integers;    *)
(*   - tan is a table in hundredths for the skews the inputs produce.      *)
(* Floating-point rounding error is outside the model.                     *)
(***************************************************************************)
EXTENDS Integers, Sequences, FiniteSets, TLC

VARIABLES
    ev,      \* the animated evaluator that was built (animated::*), or NoValue
    mdl,     \* the model value made from it (model::*), or NoValue
    res,     \* last evaluate on the animated evaluator: [frame, alpha, value]
    mres,    \* last evaluate on the model value: [frame, alpha, value (a ValueRef)]
    op,      \* the last operation
    pathbuf, \* the path buffer of the shape group being traversed
    drawn,   \* the path each Draw of the group was issued against, in order
    nshapes, \* the number of shapes of the group traversed so far
    comp,    \* the Composition being rendered, or NoValue
    rstack,  \* the nested render_layers calls: one entry per layer set entered
    walk,    \* the parent-chain walk of the layer being rendered
    sink,    \* the drawing operations emitted to the scene sink, in order
    rpc      \* the renderer's position

evars == <<ev, mdl, res, mres, op, pathbuf, drawn, nshapes>>

rvars == <<comp, rstack, walk, sink, rpc>>

vars == <<ev, mdl, res, mres, op, pathbuf, drawn, nshapes, comp, rstack, walk, sink, rpc>>

-----------------------------------------------------------------------------
(* Bounds *)

MaxFrame == 3

Frames == 0 .. MaxFrame

NoValue == [kind |-> "none"]

\* No evaluate call was made yet.
NoResult == [frame |-> -1]

-----------------------------------------------------------------------------
(* lib.rs: PointF32 / VecF32 / SizeF32 *)

PointF32(px, py) == [x |-> px, y |-> py]

to_vec2(p) == <<p.x, p.y>>

to_point(p) == <<p.x, p.y>>

-----------------------------------------------------------------------------
(* Keyframe value engine (runtime/model/value.rs).                          *)

\* Value::Fixed(v)
FixedV(v) == [fixed |-> TRUE, v |-> v]

\* Value::Animated: keyframe times (non-decreasing), one value per keyframe,
\* one hold flag per keyframe.
AnimV(ts, vs, hs) == [fixed |-> FALSE, times |-> ts, values |-> vs, hold |-> hs]

\* Value::is_fixed
Value_is_fixed(val) == val.fixed

None == [some |-> FALSE]

Some(v) == [some |-> TRUE, v |-> v]

Min(a, b) == IF a <= b THEN a ELSE b

Max(a, b) == IF a >= b THEN a ELSE b

\* Index (1-based) of the last keyframe whose time is <= f, or 1 when f is
\* before the first keyframe.
FloorIndex(times, f) ==
    LET below == {i \in 1 .. Len(times) : times[i] <= f}
    IN  IF below = {} THEN 1 ELSE CHOOSE i \in below : \A j \in below : j <= i

\* Time::frames_and_weight(times, frame): None on an empty time array, else
\* the bracketing keyframe indices, the raw weight tn/td clamped to [0, 1]
\* (0 on a zero-length interval) and the hold flag of the first keyframe.
\* Indices are 1-based here where the program's are 0-based.
Weight(ix0, ix1, raw, span, hold) ==
    [ix0 |-> ix0, ix1 |-> ix1,
     tn |-> IF span = 0 THEN 0 ELSE Max(0, Min(raw, span)),
     td |-> IF span = 0 THEN 1 ELSE span,
     hold |-> hold]

Bracket(times, hold, f, ix0, ix1) ==
    Weight(ix0, ix1, f - times[ix0], times[ix1] - times[ix0], hold[ix0])

NextIndex(times, ix0) == Min(ix0 + 1, Len(times))

BracketFrom(times, hold, f, ix0) == Bracket(times, hold, f, ix0, NextIndex(times, ix0))

frames_and_weight(times, hold, f) ==
    IF Len(times) = 0 THEN None
    ELSE Some(BracketFrom(times, hold, f, FloorIndex(times, f)))

\* Tween for f32 / f64: linear interpolation at weight tn/td.
tween(a, b, tn, td) == a + ((b - a) * tn) \div td

\* Tween for points and vectors: per component.
tween_point(a, b, tn, td) ==
    PointF32(tween(a.x, b.x, tn, td), tween(a.y, b.y, tn, td))

\* Tween for colours: per channel.
tween_color(a, b, tn, td) ==
    [r |-> tween(a.r, b.r, tn, td), g |-> tween(a.g, b.g, tn, td),
     b |-> tween(a.b, b.b, tn, td), a |-> tween(a.a, b.a, tn, td)]

\* The weight a keyframed Value tweens with: hold forces it to 0.
HoldWeight(fw) ==
    [ix0 |-> fw.ix0, ix1 |-> fw.ix1,
     tn |-> IF fw.hold THEN 0 ELSE fw.tn, td |-> fw.td]

ValueWeight(val, f) == HoldWeight(frames_and_weight(val.times, val.hold, f).v)

TweenAt(values, w) == tween(values[w.ix0], values[w.ix1], w.tn, w.td)

TweenPointAt(values, w) == tween_point(values[w.ix0], values[w.ix1], w.tn, w.td)

TweenColorAt(values, w) == tween_color(values[w.ix0], values[w.ix1], w.tn, w.td)

\* Value<f32>::evaluate
Value_evaluate(val, f) ==
    IF val.fixed THEN val.v ELSE TweenAt(val.values, ValueWeight(val, f))

\* Value<PointF32>::evaluate
Value_evaluate_point(val, f) ==
    IF val.fixed THEN val.v ELSE TweenPointAt(val.values, ValueWeight(val, f))

\* Value<Color>::evaluate
Value_evaluate_color(val, f) ==
    IF val.fixed THEN val.v ELSE TweenColorAt(val.values, ValueWeight(val, f))

-----------------------------------------------------------------------------
(* kurbo::Affine, as numerators n = <<a, b, c, d, e, f>> over denominator d. *)

Affine(a, b, c, d, e, f, den) == [n |-> <<a, b, c, d, e, f>>, d |-> den]

AffineIDENTITY == Affine(1, 0, 0, 1, 0, 0, 1)

AffineTranslate(tx, ty) == Affine(1, 0, 0, 1, tx, ty, 1)

\* sin and cos of a multiple of 90 degrees.
SinDeg(deg) ==
    CASE deg % 360 = 0 -> 0
      [] deg % 360 = 90 -> 1
      [] deg % 360 = 180 -> 0
      [] deg % 360 = 270 -> -1

CosDeg(deg) == SinDeg(deg + 90)

\* The angles besides the multiples of 90 degrees: 53 and -53 stand for the
\* angles of sine 4/5 and -4/5 and cosine 3/5 (53.13 degrees), whose rotation
\* matrix is rational.
RotDen(deg) == IF deg % 90 = 0 THEN 1 ELSE 5

SinN(deg) == IF deg % 90 = 0 THEN SinDeg(deg) ELSE IF deg > 0 THEN 4 ELSE -4

CosN(deg) == IF deg % 90 = 0 THEN CosDeg(deg) ELSE 3

\* Affine::rotate(th) = [cos, sin, -sin, cos, 0, 0]
AffineRotate(deg) ==
    Affine(CosN(deg), SinN(deg), -SinN(deg), CosN(deg), 0, 0, RotDen(deg))

\* Affine::skew(kx, 0) = [1, 0, kx, 1, 0, 0], kx in hundredths.
AffineSkew(kx100) == Affine(100, 0, kx100, 100, 0, 0, 100)

\* Affine::scale_non_uniform(sx / 100, sy / 100), sx and sy in percent.
AffineScalePercent(sx, sy) == Affine(sx, 0, 0, sy, 0, 0, 100)

\* Affine * Affine
AffineMulN(a, b, pd, qd) ==
    [n |-> << a[1] * b[1] + a[3] * b[2],
              a[2] * b[1] + a[4] * b[2],
              a[1] * b[3] + a[3] * b[4],
              a[2] * b[3] + a[4] * b[4],
              a[1] * b[5] + a[3] * b[6] + a[5] * qd,
              a[2] * b[5] + a[4] * b[6] + a[6] * qd >>,
     d |-> pd * qd]

AffineMul(p, q) == AffineMulN(p.n, q.n, p.d, q.d)

\* Equality of two matrices as rational matrices.
AffineEq(p, q) == \A i \in 1 .. 6 : p.n[i] * q.d = q.n[i] * p.d

\* Affine * Point, as <<x numerator, y numerator, denominator>>.
AffineApply(m, pt) ==
    << m.n[1] * pt.x + m.n[3] * pt.y + m.n[5],
       m.n[2] * pt.x + m.n[4] * pt.y + m.n[6],
       m.d >>

\* The matrix on the common denominator 250000 every Transform result has.
AffineNorm(m) == [n |-> [i \in 1 .. 6 |-> m.n[i] * (250000 \div m.d)], d |-> 250000]

\* f32::clamp
clamp(v, lo, hi) == IF v < lo THEN lo ELSE IF v > hi THEN hi ELSE v

\* tan of an angle in degrees, in hundredths.
Tan100(deg) ==
    CASE deg = 0 -> 0
      [] deg = 45 -> 100
      [] deg = -45 -> -100
      [] deg = 85 -> 1143
      [] deg = -85 -> -1143

-----------------------------------------------------------------------------
(* animated::Transform *)

SKEW_LIMIT == 85

Position_Value(v) == [split |-> FALSE, value |-> v]

Position_SplitValues(xv, yv) == [split |-> TRUE, x_value |-> xv, y_value |-> yv]

Position_is_fixed(p) ==
    IF p.split THEN Value_is_fixed(p.x_value) /\ Value_is_fixed(p.y_value)
    ELSE Value_is_fixed(p.value)

Transform_is_fixed_no_split_y(t) ==
    /\ Value_is_fixed(t.anchor)
    /\ IF t.position.split THEN Value_is_fixed(t.position.x_value)
       ELSE Value_is_fixed(t.position.value)
    /\ Value_is_fixed(t.rotation)
    /\ Value_is_fixed(t.scale)
    /\ Value_is_fixed(t.skew)
    /\ Value_is_fixed(t.skew_angle)

Transform_is_fixed(t) ==
    /\ Value_is_fixed(t.anchor)
    /\ Position_is_fixed(t.position)
    /\ Value_is_fixed(t.rotation)
    /\ Value_is_fixed(t.scale)
    /\ Value_is_fixed(t.skew)
    /\ Value_is_fixed(t.skew_angle)

Transform_skew_matrix_rotations_swapped(skew, skew_angle) ==
    IF skew # 0
    THEN AffineMul(AffineMul(
           AffineRotate(skew_angle),
           AffineSkew(Tan100(-clamp(skew, -SKEW_LIMIT, SKEW_LIMIT)))),
           AffineRotate(-skew_angle))
    ELSE AffineIDENTITY

Transform_skew_matrix(skew, skew_angle) ==
    IF skew # 0
    THEN AffineMul(AffineMul(
           AffineRotate(-skew_angle),
           AffineSkew(Tan100(-clamp(skew, -SKEW_LIMIT, SKEW_LIMIT)))),
           AffineRotate(skew_angle))
    ELSE AffineIDENTITY

Transform_position(t, f) ==
    IF t.position.split
    THEN PointF32(Value_evaluate(t.position.x_value, f),
                  Value_evaluate(t.position.y_value, f))
    ELSE Value_evaluate_point(t.position.value, f)

Transform_matrix_anchor_added(anchor, position, rotation, scale, skew, skew_angle) ==
    AffineNorm(
      AffineMul(AffineMul(AffineMul(AffineMul(
        AffineTranslate(position.x, position.y),
        AffineRotate(rotation)),
        Transform_skew_matrix(skew, skew_angle)),
        AffineScalePercent(scale.x, scale.y)),
        AffineTranslate(anchor.x, anchor.y)))

Transform_matrix_pivot_origin(anchor, position, rotation, scale, skew, skew_angle) ==
    AffineNorm(
      AffineMul(AffineMul(AffineMul(AffineMul(
        AffineTranslate(position.x, position.y),
        AffineTranslate(-anchor.x, -anchor.y)),
        AffineRotate(rotation)),
        Transform_skew_matrix(skew, skew_angle)),
        AffineScalePercent(scale.x, scale.y)))

\* The matrix of evaluate from the six sampled properties.
Transform_matrix(anchor, position, rotation, scale, skew, skew_angle) ==
    AffineNorm(
      AffineMul(AffineMul(AffineMul(AffineMul(
        AffineTranslate(position.x, position.y),
        AffineRotate(rotation)),
        Transform_skew_matrix(skew, skew_angle)),
        AffineScalePercent(scale.x, scale.y)),
        AffineTranslate(-anchor.x, -anchor.y)))

Transform_evaluate(t, f) ==
    Transform_matrix(Value_evaluate_point(t.anchor, f),
                     Transform_position(t, f),
                     Value_evaluate(t.rotation, f),
                     Value_evaluate_point(t.scale, f),
                     Value_evaluate(t.skew, f),
                     Value_evaluate(t.skew_angle, f))


Transform_into_model_never_collapsed(t) ==
    [kind |-> "Transform", tag |-> "Animated", animated |-> t]

Transform_into_model(t) ==
    IF Transform_is_fixed(t)
    THEN [kind |-> "Transform", tag |-> "Fixed", fixed |-> Transform_evaluate(t, 0)]
    ELSE [kind |-> "Transform", tag |-> "Animated", animated |-> t]

-----------------------------------------------------------------------------
(* animated::Ellipse and animated::Rect.  Coordinates of the results are in *)
(* halves (twice the value), so that size * 0.5 is exact.                   *)

Ellipse_is_fixed(e) == Value_is_fixed(e.position) /\ Value_is_fixed(e.size)

\* kurbo::Ellipse::new(center, radii, 0.0)
Ellipse_new(position, size) ==
    [shape |-> "Ellipse", cx2 |-> 2 * position.x, cy2 |-> 2 * position.y,
     rx2 |-> size.x, ry2 |-> size.y, rotation |-> 0]

Ellipse_evaluate(e, f) ==
    Ellipse_new(Value_evaluate_point(e.position, f), Value_evaluate_point(e.size, f))

Rect_is_fixed(r) ==
    Value_is_fixed(r.position) /\ Value_is_fixed(r.size) /\ Value_is_fixed(r.corner_radius)

\* kurbo::RoundedRect::new(x0, y0, x1, y1, radius) from the sampled centre,
\* size and corner radius
RoundedRect_new(position, size, radius) ==
    [shape |-> "RoundedRect",
     x0 |-> 2 * position.x - size.x, y0 |-> 2 * position.y - size.y,
     x1 |-> 2 * position.x + size.x, y1 |-> 2 * position.y + size.y,
     radius |-> 2 * radius]

Rect_evaluate(r, f) ==
    RoundedRect_new(Value_evaluate_point(r.position, f),
                    Value_evaluate_point(r.size, f),
                    Value_evaluate(r.corner_radius, f))

-----------------------------------------------------------------------------
(* animated::Repeater.  The copies property is sampled in units of          *)
(* 1 / CopyDen, so that it takes fractional values.                         *)

CopyDen == 4

\* f32::round: to the nearest integer, ties away from zero.
round(n, den) ==
    IF n >= 0 THEN (2 * n + den) \div (2 * den)
    ELSE -((2 * (-n) + den) \div (2 * den))

\* `as usize` on a float: saturating, so a negative value becomes 0.
as_usize(v) == IF v < 0 THEN 0 ELSE v

Repeater_is_fixed(r) ==
    /\ Value_is_fixed(r.copies)
    /\ Value_is_fixed(r.offset)
    /\ Value_is_fixed(r.anchor_point)
    /\ Value_is_fixed(r.position)
    /\ Value_is_fixed(r.rotation)
    /\ Value_is_fixed(r.scale)
    /\ Value_is_fixed(r.start_opacity)
    /\ Value_is_fixed(r.end_opacity)

Repeater_copies_truncated(r, f) == as_usize(Value_evaluate(r.copies, f) \div CopyDen)

Repeater_copies(r, f) == as_usize(round(Value_evaluate(r.copies, f), CopyDen))

Repeater_evaluate(r, f) ==
    [copies |-> Repeater_copies(r, f),
     offset |-> Value_evaluate(r.offset, f),
     anchor_point |-> to_point(Value_evaluate_point(r.anchor_point, f)),
     position |-> to_point(Value_evaluate_point(r.position, f)),
     rotation |-> Value_evaluate(r.rotation, f),
     scale |-> to_vec2(Value_evaluate_point(r.scale, f)),
     start_opacity |-> Value_evaluate(r.start_opacity, f),
     end_opacity |-> Value_evaluate(r.end_opacity, f)]

Repeater_into_model(r) ==
    IF Repeater_is_fixed(r)
    THEN [kind |-> "Repeater", tag |-> "Fixed", fixed |-> Repeater_evaluate(r, 0)]
    ELSE [kind |-> "Repeater", tag |-> "Animated", animated |-> r]

-----------------------------------------------------------------------------
(* animated::Stroke *)

Stroke_is_fixed(s) == Value_is_fixed(s.width)

Stroke_evaluate(s, f) ==
    [width |-> Value_evaluate(s.width, f),
     join |-> s.join,
     miter_limit |-> IF s.miter_limit.some THEN s.miter_limit.v ELSE 4,
     start_cap |-> s.cap,
     end_cap |-> s.cap]

Stroke_into_model(s) ==
    IF Stroke_is_fixed(s)
    THEN [kind |-> "Stroke", tag |-> "Fixed", fixed |-> Stroke_evaluate(s, 0)]
    ELSE [kind |-> "Stroke", tag |-> "Animated", animated |-> s]


-----------------------------------------------------------------------------
(* peniko::Color (8-bit channels) and peniko::ColorStop.  A colour channel   *)
(* is an integer in 255ths; an alpha factor is a numerator over AlphaDen.   *)

AlphaDen == 2

Alphas == 0 .. AlphaDen

Color(cr, cg, cb, ca) == [r |-> cr, g |-> cg, b |-> cb, a |-> ca]

\* Color::rgba(r, g, b, a): each channel clamped into the 8-bit range.
Color_rgba(cr, cg, cb, ca) ==
    Color(clamp(cr, 0, 255), clamp(cg, 0, 255), clamp(cb, 0, 255), clamp(ca, 0, 255))

\* Color::with_alpha_factor(alpha)
with_alpha_factor(c, an) ==
    [c EXCEPT !.a = clamp(round(c.a * an, AlphaDen), 0, 255)]

ColorStop(off, c) == [offset |-> off, color |-> c]

\* ValueRef<T>
Borrowed(v) == [ref |-> "Borrowed", value |-> v]

Owned(v) == [ref |-> "Owned", value |-> v]

into_owned(vr) == vr.value

-----------------------------------------------------------------------------
(* animated::ColorStops: frames and hold are the time and the hold flag of  *)
(* each keyframe, values one row of 5 * count numbers per keyframe.         *)

\* slice::get(i) with a 0-based index.
get(seq, i) == IF i >= 0 /\ i < Len(seq) THEN Some(seq[i + 1]) ELSE None

\* The five numbers of stop i in both rows are there.
HasStop(v0, v1, j) ==
    \A k \in j .. j + 4 : get(v0, k).some /\ get(v1, k).some

\* The stop built from the five numbers at j: the offset is tweened at the
\* raw weight tn/td, the colour channels at hn/td (0 under hold).
MakeStop(v0, v1, j, tn, hn, td) ==
    ColorStop(
      tween(v0[j + 1], v1[j + 1], tn, td),
      Color_rgba(tween(v0[j + 2], v1[j + 2], hn, td),
                 tween(v0[j + 3], v1[j + 3], hn, td),
                 tween(v0[j + 4], v1[j + 4], hn, td),
                 tween(v0[j + 5], v1[j + 5], hn, td)))

\* One stop of evaluate_inner's loop body: None when a `?` returns early.
ColorStops_stop(v0, v1, i, fw) ==
    IF HasStop(v0, v1, i * 5)
    THEN Some(MakeStop(v0, v1, i * 5, fw.tn, IF fw.hold THEN 0 ELSE fw.tn, fw.td))
    ELSE None

\* Number of leading stops that are there.
GoodPrefix(stops) ==
    Cardinality({i \in 1 .. Len(stops) : \A k \in 1 .. i : stops[k].some})

ColorStops_collect_partial(stops) ==
    Some([i \in 1 .. GoodPrefix(stops) |-> stops[i].v])

\* The loop's result: None as soon as one stop is not there.
ColorStops_collect(stops) ==
    IF \E i \in 1 .. Len(stops) : ~stops[i].some THEN None
    ELSE Some([i \in 1 .. Len(stops) |-> stops[i].v])

ColorStops_loop(r0, r1, count, fw) ==
    IF ~r0.some \/ ~r1.some THEN None
    ELSE ColorStops_collect([i \in 1 .. count |-> ColorStops_stop(r0.v, r1.v, i - 1, fw)])

ColorStops_rows(cs, fwo) ==
    IF ~fwo.some THEN None
    ELSE ColorStops_loop(get(cs.values, fwo.v.ix0 - 1), get(cs.values, fwo.v.ix1 - 1),
                         cs.count, fwo.v)

ColorStops_evaluate_inner(cs, f) ==
    ColorStops_rows(cs, frames_and_weight(cs.frames, cs.hold, f))

\* Option::unwrap_or_default
unwrap_or_default(o) == IF o.some THEN o.v ELSE <<>>

ColorStops_evaluate(cs, f) == unwrap_or_default(ColorStops_evaluate_inner(cs, f))

-----------------------------------------------------------------------------
(* model::ColorStops (simple_value!) *)

ColorStops_Fixed(stops) == [kind |-> "ColorStops", tag |-> "Fixed", fixed |-> stops]

ColorStops_Animated(cs) == [kind |-> "ColorStops", tag |-> "Animated", animated |-> cs]

-----------------------------------------------------------------------------
(* The simple_value! macro: model::Transform, Stroke, Repeater, ColorStops  *)

simple_value_is_fixed(m) == m.tag = "Fixed"

\* simple_value!(Transform)
model_Transform_evaluate(m, f) ==
    IF m.tag = "Fixed" THEN Borrowed(m.fixed)
    ELSE Owned(Transform_evaluate(m.animated, f))

\* simple_value!(Stroke)
model_Stroke_evaluate(m, f) ==
    IF m.tag = "Fixed" THEN Borrowed(m.fixed)
    ELSE Owned(Stroke_evaluate(m.animated, f))

\* simple_value!(Repeater)
model_Repeater_evaluate(m, f) ==
    IF m.tag = "Fixed" THEN Borrowed(m.fixed)
    ELSE Owned(Repeater_evaluate(m.animated, f))

\* simple_value!(ColorStops)
model_ColorStops_evaluate(m, f) ==
    IF m.tag = "Fixed" THEN Borrowed(m.fixed)
    ELSE Owned(ColorStops_evaluate(m.animated, f))

-----------------------------------------------------------------------------
(* animated::Gradient *)

\* Largest r with r * r <= n.
Isqrt(n) == CHOOSE r \in 0 .. n : r * r <= n /\ (r + 1) * (r + 1) > n

\* Vec2::hypot
hypot(v) == Isqrt(v[1] * v[1] + v[2] * v[2])

Gradient_is_fixed(g) ==
    /\ Value_is_fixed(g.start_point)
    /\ Value_is_fixed(g.end_point)
    /\ simple_value_is_fixed(g.stops)

\* peniko::Gradient::new_radial(center, radius) with the stops set
new_radial(center, radius, stops) ==
    [brush |-> "Gradient", gradient |-> "Radial",
     start_center |-> center, start_radius |-> 0,
     end_center |-> center, end_radius |-> radius, stops |-> stops]

\* peniko::Gradient::new_linear(start, end) with the stops set
new_linear(start, end, stops) ==
    [brush |-> "Gradient", gradient |-> "Linear",
     start |-> start, end |-> end, stops |-> stops]

\* Vec2 - Vec2
vec2_sub(e, s) == <<e[1] - s[1], e[2] - s[2]>>

Gradient_brush_radius_from_origin(is_radial, start, end, stops) ==
    IF is_radial
    THEN new_radial(to_point(start), hypot(to_vec2(end)), stops)
    ELSE new_linear(to_point(start), to_point(end), stops)

\* The brush of evaluate from the sampled start, end and stops.
Gradient_brush(is_radial, start, end, stops) ==
    IF is_radial
    THEN new_radial(to_point(start), hypot(vec2_sub(to_vec2(end), to_vec2(start))), stops)
    ELSE new_linear(to_point(start), to_point(end), stops)

Gradient_evaluate(g, f) ==
    Gradient_brush(g.is_radial,
                   Value_evaluate_point(g.start_point, f),
                   Value_evaluate_point(g.end_point, f),
                   into_owned(model_ColorStops_evaluate(g.stops, f)))

-----------------------------------------------------------------------------
(* animated::Brush, fixed::Brush (peniko::Brush) and model::Brush *)

Brush_Solid(v) == [kind |-> "Brush", variant |-> "Solid", value |-> v]

Brush_Gradient(g) == [kind |-> "Brush", variant |-> "Gradient", value |-> g]

\* Brush::from(Color)
SolidBrush(c) == [brush |-> "Solid", color |-> c]

Brush_is_fixed(b) ==
    IF b.variant = "Solid" THEN Value_is_fixed(b.value) ELSE Gradient_is_fixed(b.value)

Brush_evaluate(b, an, f) ==
    IF b.variant = "Solid"
    THEN SolidBrush(with_alpha_factor(Value_evaluate_color(b.value, f), an))
    ELSE Gradient_evaluate(b.value, f)

Brush_into_model(b) ==
    IF Brush_is_fixed(b)
    THEN [kind |-> "Brush", tag |-> "Fixed", fixed |-> Brush_evaluate(b, AlphaDen, 0)]
    ELSE [kind |-> "Brush", tag |-> "Animated", animated |-> b]

\* fixed::brush_with_alpha(brush, alpha): the brush with the alpha factor
\* multiplied into its colour, or into the colour of every stop.
brush_with_alpha(br, an) ==
    IF an = AlphaDen THEN br
    ELSE IF br.brush = "Solid" THEN SolidBrush(with_alpha_factor(br.color, an))
    ELSE [br EXCEPT !.stops =
            [i \in 1 .. Len(br.stops) |->
               ColorStop(br.stops[i].offset, with_alpha_factor(br.stops[i].color, an))]]

model_Brush_is_fixed(m) == m.tag = "Fixed"

model_Brush_evaluate_always_owned(m, an, f) ==
    IF m.tag = "Fixed"
    THEN Owned(brush_with_alpha(m.fixed, an))
    ELSE Owned(Brush_evaluate(m.animated, an, f))

model_Brush_evaluate(m, an, f) ==
    IF m.tag = "Fixed"
    THEN IF an = AlphaDen THEN Borrowed(m.fixed)
         ELSE Owned(brush_with_alpha(m.fixed, an))
    ELSE Owned(Brush_evaluate(m.animated, an, f))


-----------------------------------------------------------------------------
(* Paths: kurbo::PathEl and lib.rs PathEl32.  A path element is its kind    *)
(* and its points; the path buffer is a sequence of path elements.          *)

PathEl(el, pts) == [el |-> el, pts |-> pts]

\* PathEl32::to_path_el: each PointF32 becomes a kurbo::Point.
to_path_el(e) == PathEl(e.el, [i \in 1 .. Len(e.pts) |-> to_point(e.pts[i])])

\* Vec::extend: the elements are appended after those in the buffer.
extend(path, els) == path \o els

\* RoundedRect::path_elements: the outline from the top edge round the four
\* corners (coordinates in halves), closed.
RoundedRect_path_elements(rr) ==
    << PathEl("MoveTo", << <<rr.x0 + rr.radius, rr.y0>> >>),
       PathEl("LineTo", << <<rr.x1 - rr.radius, rr.y0>> >>),
       PathEl("CurveTo", << <<rr.x1, rr.y0>>, <<rr.x1, rr.y0>>, <<rr.x1, rr.y0 + rr.radius>> >>),
       PathEl("LineTo", << <<rr.x1, rr.y1 - rr.radius>> >>),
       PathEl("CurveTo", << <<rr.x1, rr.y1>>, <<rr.x1, rr.y1>>, <<rr.x1 - rr.radius, rr.y1>> >>),
       PathEl("LineTo", << <<rr.x0 + rr.radius, rr.y1>> >>),
       PathEl("CurveTo", << <<rr.x0, rr.y1>>, <<rr.x0, rr.y1>>, <<rr.x0, rr.y1 - rr.radius>> >>),
       PathEl("LineTo", << <<rr.x0, rr.y0 + rr.radius>> >>),
       PathEl("CurveTo", << <<rr.x0, rr.y0>>, <<rr.x0, rr.y0>>, <<rr.x0 + rr.radius, rr.y0>> >>),
       PathEl("ClosePath", <<>>) >>

\* Ellipse::path_elements: four quarter arcs from the rightmost point
\* (coordinates in halves), closed.
Ellipse_path_elements(el) ==
    << PathEl("MoveTo", << <<el.cx2 + el.rx2, el.cy2>> >>),
       PathEl("CurveTo", << <<el.cx2 + el.rx2, el.cy2 + el.ry2>>,
                            <<el.cx2 + el.rx2, el.cy2 + el.ry2>>,
                            <<el.cx2, el.cy2 + el.ry2>> >>),
       PathEl("CurveTo", << <<el.cx2 - el.rx2, el.cy2 + el.ry2>>,
                            <<el.cx2 - el.rx2, el.cy2 + el.ry2>>,
                            <<el.cx2 - el.rx2, el.cy2>> >>),
       PathEl("CurveTo", << <<el.cx2 - el.rx2, el.cy2 - el.ry2>>,
                            <<el.cx2 - el.rx2, el.cy2 - el.ry2>>,
                            <<el.cx2, el.cy2 - el.ry2>> >>),
       PathEl("CurveTo", << <<el.cx2 + el.rx2, el.cy2 - el.ry2>>,
                            <<el.cx2 + el.rx2, el.cy2 - el.ry2>>,
                            <<el.cx2 + el.rx2, el.cy2>> >>),
       PathEl("ClosePath", <<>>) >>

-----------------------------------------------------------------------------
(* animated::Spline: times and hold are the time and the hold flag of each  *)
(* keyframe, values one list of control points per keyframe.                *)

\* The control points of the two keyframes tweened point by point.
TweenedPoints(from, to, tn, td) ==
    [i \in 1 .. Min(Len(from), Len(to)) |-> to_point(tween_point(from[i], to[i], tn, td))]

\* The cubic segments after the first point: one CurveTo per three points.
SplineCurves(pts) ==
    [k \in 1 .. ((Len(pts) - 1) \div 3) |->
        PathEl("CurveTo", <<pts[3 * k - 1], pts[3 * k], pts[3 * k + 1]>>)]

SplineClose(is_closed) == IF is_closed THEN <<PathEl("ClosePath", <<>>)>> ELSE <<>>

\* The path elements of the tweened control points.
SplineElements(pts, is_closed) ==
    IF Len(pts) = 0 THEN <<>>
    ELSE <<PathEl("MoveTo", <<pts[1]>>)>> \o SplineCurves(pts) \o SplineClose(is_closed)

\* (from, to, t).to_path(is_closed, path): the elements are pushed to path.
to_path(from, to, tn, td, is_closed, path) ==
    extend(path, SplineElements(TweenedPoints(from, to, tn, td), is_closed))

Spline_emit_one_row(s, fw, from, to, path) ==
    IF ~from.some THEN [ok |-> FALSE, path |-> path]
    ELSE IF ~to.some
    THEN [ok |-> TRUE, path |-> to_path(from.v, from.v, 0, 1, s.is_closed, path)]
    ELSE [ok |-> TRUE, path |-> to_path(from.v, to.v, fw.tn, fw.td, s.is_closed, path)]

\* The second let-else and the rest of Spline::evaluate.
Spline_emit(s, fw, from, to, path) ==
    IF ~from.some \/ ~to.some THEN [ok |-> FALSE, path |-> path]
    ELSE [ok |-> TRUE, path |-> to_path(from.v, to.v, fw.tn, fw.td, s.is_closed, path)]

Spline_bracketed(s, fwo, path) ==
    IF ~fwo.some THEN [ok |-> FALSE, path |-> path]
    ELSE Spline_emit(s, fwo.v, get(s.values, fwo.v.ix0 - 1), get(s.values, fwo.v.ix1 - 1),
                     path)

\* Spline::evaluate(frame, path): the returned flag and the path buffer after
\* the call.
Spline_evaluate(s, f, path) ==
    Spline_bracketed(s, frames_and_weight(s.times, s.hold, f), path)

-----------------------------------------------------------------------------
(* model::Geometry *)

Geometry_Fixed(els) == [kind |-> "Geometry", variant |-> "Fixed", fixed |-> els]

Geometry_Rect(r) == [kind |-> "Geometry", variant |-> "Rect", rect |-> r]

Geometry_Ellipse(e) == [kind |-> "Geometry", variant |-> "Ellipse", ellipse |-> e]

Geometry_Spline(s) == [kind |-> "Geometry", variant |-> "Spline", spline |-> s]

Geometry_evaluate_overwrites(g, f, path) ==
    CASE g.variant = "Fixed" -> [i \in 1 .. Len(g.fixed) |-> to_path_el(g.fixed[i])]
      [] g.variant = "Rect" -> RoundedRect_path_elements(Rect_evaluate(g.rect, f))
      [] g.variant = "Ellipse" -> Ellipse_path_elements(Ellipse_evaluate(g.ellipse, f))
      [] g.variant = "Spline" -> Spline_evaluate(g.spline, f, <<>>).path

\* Geometry::evaluate(frame, path): the path buffer after the call.
Geometry_evaluate(g, f, path) ==
    CASE g.variant = "Fixed" ->
           extend(path, [i \in 1 .. Len(g.fixed) |-> to_path_el(g.fixed[i])])
      [] g.variant = "Rect" ->
           extend(path, RoundedRect_path_elements(Rect_evaluate(g.rect, f)))
      [] g.variant = "Ellipse" ->
           extend(path, Ellipse_path_elements(Ellipse_evaluate(g.ellipse, f)))
      [] g.variant = "Spline" -> Spline_evaluate(g.spline, f, path).path

-----------------------------------------------------------------------------
(* The documents the evaluators are built from.                             *)

MaxCount == 2

\* Two keyframes, at frames 0 and 2, interpolated or held.
Anim2(v0, v1) == AnimV(<<0, 2>>, <<v0, v1>>, <<FALSE, FALSE>>)

Hold2(v0, v1) == AnimV(<<0, 2>>, <<v0, v1>>, <<TRUE, FALSE>>)

Anchors ==
    {FixedV(PointF32(0, 0)), FixedV(PointF32(3, -2)),
     Anim2(PointF32(0, 0), PointF32(4, 2))}

Positions ==
    {Position_Value(FixedV(PointF32(5, 1))),
     Position_Value(Anim2(PointF32(0, 0), PointF32(6, -4))),
     Position_SplitValues(FixedV(5), FixedV(1)),
     Position_SplitValues(FixedV(5), Anim2(0, 6)),
     Position_SplitValues(Hold2(0, 6), FixedV(1))}

Rotations == {FixedV(0), FixedV(90), Anim2(0, 180)}

Scales ==
    {FixedV(PointF32(100, 100)), FixedV(PointF32(50, -200)),
     Anim2(PointF32(100, 100), PointF32(200, 100))}

Skews == {FixedV(0), FixedV(45), FixedV(90), Anim2(0, -90)}

SkewAngles == {FixedV(0), FixedV(90), FixedV(53), Anim2(0, 180)}

Transforms ==
    {[kind |-> "Transform", anchor |-> a, position |-> p, rotation |-> r,
      scale |-> s, skew |-> k, skew_angle |-> ka] :
        a \in Anchors, p \in Positions, r \in Rotations, s \in Scales,
        k \in Skews, ka \in SkewAngles}

Scalars == {FixedV(1), Anim2(0, 2)}

Points == {FixedV(PointF32(3, 4)), Hold2(PointF32(0, 0), PointF32(2, 2))}

\* copies, in units of 1 / CopyDen
Copies ==
    {FixedV(2 * CopyDen), FixedV(2 * CopyDen + 1), FixedV(-CopyDen - 1), FixedV(-1),
     Anim2(-CopyDen, 3 * CopyDen), Anim2(CopyDen, 4 * CopyDen)}

Repeaters ==
    {[kind |-> "Repeater", copies |-> c, offset |-> o, anchor_point |-> a,
      position |-> p, rotation |-> r, scale |-> s,
      start_opacity |-> so, end_opacity |-> eo] :
        c \in Copies, o \in Scalars, a \in Points, p \in Points, r \in Scalars,
        s \in Points, so \in Scalars, eo \in Scalars}

Strokes ==
    {[kind |-> "Stroke", width |-> w, join |-> j, miter_limit |-> ml, cap |-> c] :
        w \in {FixedV(2), Anim2(1, 5), Hold2(1, 5)}, j \in {"Miter", "Round"},
        ml \in {None, Some(10)}, c \in {"Butt", "Round"}}

Rects ==
    {[kind |-> "Rect", is_ccw |-> FALSE, position |-> p, size |-> s,
      corner_radius |-> r] : p \in Points, s \in Points, r \in Scalars}

Ellipses ==
    {[kind |-> "Ellipse", is_ccw |-> FALSE, position |-> p, size |-> s] :
        p \in Points, s \in Points}

\* Rows of an animated ColorStops: 5 numbers per stop.
RowOf(n, base) == [k \in 1 .. n |-> base + 20 * k]

Rows ==
    {RowOf(5 * MaxCount, 0), RowOf(5 * MaxCount, 60), RowOf(5, 0), RowOf(3, 0)}

RowLists ==
    {<<>>} \cup {<<r>> : r \in Rows} \cup {<<r0, r1>> : r0 \in Rows, r1 \in Rows}

TimeLists ==
    {[frames |-> <<>>, hold |-> <<>>],
     [frames |-> <<1>>, hold |-> <<FALSE>>],
     [frames |-> <<0, 2>>, hold |-> <<FALSE, FALSE>>],
     [frames |-> <<0, 2>>, hold |-> <<TRUE, FALSE>>]}

AnimatedColorStops ==
    {[kind |-> "ColorStops", frames |-> t.frames, hold |-> t.hold, values |-> v,
      count |-> n] : t \in TimeLists, v \in RowLists, n \in 0 .. MaxCount}

FixedColorStops ==
    {<<>>,
     <<ColorStop(0, Color(255, 0, 0, 255)), ColorStop(100, Color(0, 0, 255, 101))>>}

\* The stops of the gradients: fixed, well-formed animated, malformed animated.
GradientStops ==
    {ColorStops_Fixed(s) : s \in FixedColorStops}
    \cup {ColorStops_Animated(
            [kind |-> "ColorStops", frames |-> <<0, 2>>, hold |-> <<FALSE, FALSE>>,
             values |-> <<RowOf(5 * MaxCount, 0), RowOf(5 * MaxCount, 60)>>,
             count |-> MaxCount]),
          ColorStops_Animated(
            [kind |-> "ColorStops", frames |-> <<0, 2>>, hold |-> <<TRUE, FALSE>>,
             values |-> <<RowOf(5 * MaxCount, 0)>>, count |-> 1])}

Gradients ==
    {[is_radial |-> rad, start_point |-> sp, end_point |-> ep, stops |-> st] :
        rad \in BOOLEAN,
        sp \in {FixedV(PointF32(0, 0)), Anim2(PointF32(0, 0), PointF32(2, 2))},
        ep \in {FixedV(PointF32(3, 4)), FixedV(PointF32(1, 1)),
                Anim2(PointF32(3, 4), PointF32(6, 8))},
        st \in GradientStops}

SolidColors ==
    {FixedV(Color(255, 0, 0, 255)), FixedV(Color(0, 0, 255, 101)),
     Anim2(Color(0, 0, 0, 255), Color(200, 100, 50, 55)),
     Hold2(Color(0, 0, 0, 255), Color(200, 100, 50, 55))}

Brushes ==
    {Brush_Solid(c) : c \in SolidColors} \cup {Brush_Gradient(g) : g \in Gradients}

Evaluators ==
    Transforms \cup Repeaters \cup Strokes \cup Rects \cup Ellipses
    \cup AnimatedColorStops \cup Brushes

\* Control points of a spline keyframe: a first point and one cubic segment.
SplineRow(bx, by) ==
    <<PointF32(bx, by), PointF32(bx + 2, by), PointF32(bx + 2, by + 2), PointF32(bx, by + 2)>>

\* Splines: well formed (open and closed, one and two keyframes), with fewer
\* value rows than times, with no value row, and with an empty time array.
Splines ==
    {[kind |-> "Spline", is_closed |-> TRUE, times |-> <<0, 2>>,
      hold |-> <<FALSE, FALSE>>, values |-> <<SplineRow(0, 0), SplineRow(4, 2)>>],
     [kind |-> "Spline", is_closed |-> FALSE, times |-> <<1>>,
      hold |-> <<FALSE>>, values |-> <<SplineRow(0, 0)>>],
     [kind |-> "Spline", is_closed |-> TRUE, times |-> <<0, 2>>,
      hold |-> <<FALSE, FALSE>>, values |-> <<SplineRow(0, 0)>>],
     [kind |-> "Spline", is_closed |-> FALSE, times |-> <<0, 2>>,
      hold |-> <<FALSE, FALSE>>, values |-> <<>>],
     [kind |-> "Spline", is_closed |-> TRUE, times |-> <<>>,
      hold |-> <<>>, values |-> <<SplineRow(0, 0), SplineRow(4, 2)>>]}

\* A fixed path of PathEl32 elements.
FixedPath32 ==
    <<PathEl("MoveTo", <<PointF32(0, 0)>>),
      PathEl("QuadTo", <<PointF32(1, 2), PointF32(3, 0)>>),
      PathEl("ClosePath", <<>>)>>

\* The geometry shapes of a group: one of each variant, the splines well
\* formed and malformed.
Geometries ==
    {Geometry_Fixed(FixedPath32),
     Geometry_Rect([kind |-> "Rect", is_ccw |-> FALSE,
                    position |-> Hold2(PointF32(0, 0), PointF32(2, 2)),
                    size |-> FixedV(PointF32(3, 4)), corner_radius |-> FixedV(1)]),
     Geometry_Ellipse([kind |-> "Ellipse", is_ccw |-> FALSE,
                       position |-> FixedV(PointF32(3, 4)),
                       size |-> Anim2(PointF32(2, 2), PointF32(4, 6))])}
    \cup {Geometry_Spline(s) : s \in Splines}

\* Shapes traversed in one group.
MaxShapes == 4

\* Model values that are built fixed, without an animated evaluator:
\* Transform::default() and the stops of a gradient that has no keyframes.
FixedModels ==
    {[kind |-> "Transform", tag |-> "Fixed", fixed |-> AffineNorm(AffineIDENTITY)]}
    \cup {ColorStops_Fixed(s) : s \in FixedColorStops}

-----------------------------------------------------------------------------
(* Operations on the evaluators *)

\* evaluate of the animated evaluator e
Evaluator_evaluate(e, an, f) ==
    CASE e.kind = "Transform" -> Transform_evaluate(e, f)
      [] e.kind = "Repeater" -> Repeater_evaluate(e, f)
      [] e.kind = "Stroke" -> Stroke_evaluate(e, f)
      [] e.kind = "Rect" -> Rect_evaluate(e, f)
      [] e.kind = "Ellipse" -> Ellipse_evaluate(e, f)
      [] e.kind = "ColorStops" -> ColorStops_evaluate(e, f)
      [] e.kind = "Brush" -> Brush_evaluate(e, an, f)

\* is_fixed of the animated evaluator e (ColorStops has none)
Evaluator_is_fixed(e) ==
    CASE e.kind = "Transform" -> Transform_is_fixed(e)
      [] e.kind = "Repeater" -> Repeater_is_fixed(e)
      [] e.kind = "Stroke" -> Stroke_is_fixed(e)
      [] e.kind = "Rect" -> Rect_is_fixed(e)
      [] e.kind = "Ellipse" -> Ellipse_is_fixed(e)
      [] e.kind = "Brush" -> Brush_is_fixed(e)

\* into_model of the animated evaluator e
Evaluator_into_model(e) ==
    CASE e.kind = "Transform" -> Transform_into_model(e)
      [] e.kind = "Repeater" -> Repeater_into_model(e)
      [] e.kind = "Stroke" -> Stroke_into_model(e)
      [] e.kind = "Brush" -> Brush_into_model(e)

\* is_fixed of a model value
Model_is_fixed(m) ==
    IF m.kind = "Brush" THEN model_Brush_is_fixed(m) ELSE simple_value_is_fixed(m)

\* evaluate of a model value
Model_evaluate(m, an, f) ==
    CASE m.kind = "Brush" -> model_Brush_evaluate(m, an, f)
      [] m.kind = "Transform" -> model_Transform_evaluate(m, f)
      [] m.kind = "Stroke" -> model_Stroke_evaluate(m, f)
      [] m.kind = "Repeater" -> model_Repeater_evaluate(m, f)
      [] m.kind = "ColorStops" -> model_ColorStops_evaluate(m, f)

\* The alpha factors a call can pass: only Brush::evaluate takes one.
AlphasOf(kind) == IF kind = "Brush" THEN Alphas ELSE {AlphaDen}

HasModel(kind) == kind \in {"Transform", "Repeater", "Stroke", "Brush"}

\* No evaluator was built.
EvalIdle ==
    /\ ev = NoValue
    /\ mdl = NoValue
    /\ res = NoResult
    /\ mres = NoResult
    /\ op = "init"
    /\ pathbuf = <<>>
    /\ drawn = <<>>
    /\ nshapes = 0

\* No render call was made.
RenderIdle ==
    /\ comp = NoValue
    /\ rstack = <<>>
    /\ walk = NoValue
    /\ sink = <<>>
    /\ rpc = "idle"

Init == EvalIdle /\ RenderIdle

\* The importer builds an animated evaluator.
Build(e) ==
    /\ op = "init"
    /\ ev' = e
    /\ op' = "built"
    /\ UNCHANGED <<mdl, res, mres, pathbuf, drawn, nshapes, rvars>>

\* The importer builds a model value that is fixed from the start.
BuildFixed(m) ==
    /\ op = "init"
    /\ mdl' = m
    /\ op' = "model"
    /\ UNCHANGED <<ev, res, mres, pathbuf, drawn, nshapes, rvars>>

\* evaluate(frame) / evaluate(alpha, frame) on the animated evaluator
Evaluate(f, an) ==
    /\ op \in {"built", "evaluated"}
    /\ res' = [frame |-> f, alpha |-> an, value |-> Evaluator_evaluate(ev, an, f)]
    /\ op' = "evaluated"
    /\ UNCHANGED <<ev, mdl, mres, pathbuf, drawn, nshapes, rvars>>

\* into_model(self): consumes the evaluator
IntoModel ==
    /\ op \in {"built", "evaluated"}
    /\ HasModel(ev.kind)
    /\ mdl' = Evaluator_into_model(ev)
    /\ res' = NoResult
    /\ op' = "model"
    /\ UNCHANGED <<ev, mres, pathbuf, drawn, nshapes, rvars>>

\* ColorStops::Animated(stops): animated stops are wrapped as they are
WrapColorStops ==
    /\ op \in {"built", "evaluated"}
    /\ ev.kind = "ColorStops"
    /\ mdl' = ColorStops_Animated(ev)
    /\ res' = NoResult
    /\ op' = "model"
    /\ UNCHANGED <<ev, mres, pathbuf, drawn, nshapes, rvars>>

\* evaluate(frame) / evaluate(alpha, frame) on the model value
ModelEvaluate(f, an) ==
    /\ op \in {"model", "model_evaluated"}
    /\ mres' = [frame |-> f, alpha |-> an, value |-> Model_evaluate(mdl, an, f)]
    /\ op' = "model_evaluated"
    /\ UNCHANGED <<ev, mdl, res, pathbuf, drawn, nshapes, rvars>>

\* Shape::Geometry(g) in the traversal of a shape group at frame f: the
\* geometry is evaluated into the path buffer.  Every shape of one group is
\* visited at the frame of the render call.
GeometryEvaluate(g, f) ==
    /\ op = "init" \/ (op = "group" /\ f = res.frame)
    /\ nshapes < MaxShapes
    /\ ev' = g
    /\ pathbuf' = Geometry_evaluate(g, f, pathbuf)
    /\ res' = [frame |-> f, alpha |-> AlphaDen, value |-> <<>>, before |-> pathbuf]
    /\ nshapes' = nshapes + 1
    /\ op' = "group"
    /\ UNCHANGED <<mdl, mres, drawn, rvars>>

\* Shape::Draw in the traversal: the draw is issued against the path
\* accumulated so far, which it leaves in the buffer.
Draw ==
    /\ op = "group"
    /\ nshapes < MaxShapes
    /\ drawn' = Append(drawn, pathbuf)
    /\ nshapes' = nshapes + 1
    /\ UNCHANGED <<ev, mdl, res, mres, op, pathbuf, rvars>>

\* Spline::evaluate(frame, path) on a path buffer that may hold elements.
SplineEvaluate(s, f) ==
    /\ op = "init" \/ (op = "group" /\ f = res.frame)
    /\ ev' = s
    /\ pathbuf' = Spline_evaluate(s, f, pathbuf).path
    /\ res' = [frame |-> f, alpha |-> AlphaDen,
               value |-> Spline_evaluate(s, f, pathbuf).ok, before |-> pathbuf]
    /\ op' = "spline"
    /\ UNCHANGED <<mdl, mres, drawn, nshapes, rvars>>

Next ==
    \/ op \in {"init", "group"} /\ \E g \in Geometries : \E f \in Frames : GeometryEvaluate(g, f)
    \/ Draw
    \/ op \in {"init", "group"} /\ \E s \in Splines : \E f \in Frames : SplineEvaluate(s, f)
    \/ op = "init" /\ \E e \in Evaluators : Build(e)
    \/ op = "init" /\ \E m \in FixedModels : BuildFixed(m)
    \/ \E f \in Frames : \E an \in AlphasOf(ev.kind) : Evaluate(f, an)
    \/ IntoModel
    \/ WrapColorStops
    \/ \E f \in Frames : \E an \in AlphasOf(mdl.kind) : ModelEvaluate(f, an)

Spec == Init /\ [][Next]_vars


-----------------------------------------------------------------------------
(* Scene graph (runtime/model/mod.rs: Layer, Content; runtime/mod.rs:       *)
(* Composition) and the documents that are rendered.                        *)

\* Range<f64>::contains: start inclusive, end exclusive.
Range_contains_end_inclusive(range, f) == range.start <= f /\ f <= range.end

Range_contains(range, f) == range.start <= f /\ f < range.end

Range(s, e) == [start |-> s, end |-> e]

Content_None == [type |-> "None"]

Content_Instance(n, remap) == [type |-> "Instance", name |-> n, time_remap |-> remap]

\* A shape tree is modelled by its leaves in traversal order.
Content_Shape(shapes) == [type |-> "Shape", shapes |-> shapes]

\* Layer: the fields the traversal reads. parent is a 0-based index.
Layer(par, tr, fr, st, sf, mask, c) ==
    [parent |-> par, transform |-> tr, frames |-> fr, stretch |-> st,
     start_frame |-> sf, is_mask |-> mask, content |-> c]

\* model::Transform::Fixed of a translation
FixedTranslate(tx, ty) ==
    [kind |-> "Transform", tag |-> "Fixed", fixed |-> AffineTranslate(tx, ty)]

\* The first top-level layer: a shape layer or an instance of the asset "a"
\* (with and without a time remap), its parent none, itself or the second
\* layer.
FirstLayers ==
    {Layer(par, FixedTranslate(1, 0), Range(1, 3), 2, 1, FALSE, c) :
        par \in {None, Some(0), Some(1)},
        c \in {Content_Shape(<<"Geometry", "Draw">>),
               Content_Instance("a", None),
               Content_Instance("a", Some(Anim2(3, 0)))}}

SecondContents ==
    {[mask |-> FALSE, c |-> Content_Shape(<<"Geometry", "Draw", "Geometry", "Draw">>)],
     [mask |-> TRUE, c |-> Content_Shape(<<"Geometry", "Draw">>)],
     [mask |-> FALSE, c |-> Content_Instance("a", None)],
     [mask |-> FALSE, c |-> Content_Instance("missing", None)],
     [mask |-> FALSE, c |-> Content_None]}

\* The second top-level layer: its parent none, the first layer or an index
\* outside the sequence; its asset may not exist; it may be a mask.
SecondLayers ==
    {Layer(par, FixedTranslate(0, 2), Range(0, 2), 1, 0, mc.mask, mc.c) :
        par \in {None, Some(0), Some(7)}, mc \in SecondContents}

\* The layers of the asset "a": two shape layers whose parents may form a loop.
AssetLayers ==
    {<<Layer(p0, FixedTranslate(0, 4), Range(0, 2), 1, 0, FALSE,
             Content_Shape(<<"Geometry", "Draw">>)),
       Layer(p1, FixedTranslate(8, 0), Range(1, 3), 1, 0, FALSE,
             Content_Shape(<<"Geometry", "Draw">>))>> :
        p0 \in {None, Some(1)}, p1 \in {Some(0), Some(1)}}

\* Composition: the top-level layers and the assets by name.
Compositions ==
    {[layers |-> <<l0, l1>>, assets |-> [a |-> al]] :
        l0 \in FirstLayers, l1 \in SecondLayers, al \in AssetLayers}

AssetNames == {"a"}

\* HashMap::get(name) on the assets
assets_get(c, name) == IF name \in AssetNames THEN Some(c.assets[name]) ELSE None

\* The layer set entry e of the render stack walks: "" is the top level.
LayerSet(c, e) == IF e.set = "" THEN c.layers ELSE c.assets[e.set]

-----------------------------------------------------------------------------
(* Renderer (runtime/render.rs): render, render_layers and the parent walk, *)
(* one step per layer visited, per parent composed and per layer set left.  *)

Top == rstack[Len(rstack)]

TopLayers == LayerSet(comp, Top)

TopLayer == TopLayers[Top.idx + 1]

\* The local frame of an instanced asset: the time remap evaluated at the
\* frame, else (frame - start_frame) / stretch.
LocalFrame(layer, f) ==
    IF layer.content.time_remap.some
    THEN Value_evaluate(layer.content.time_remap.v, f)
    ELSE (f - layer.start_frame) \div layer.stretch

\* One fill or stroke per Draw leaf, against the path accumulated so far.
RECURSIVE ShapeOps(_, _, _, _)
ShapeOps(shapes, i, path, proto) ==
    IF i > Len(shapes) THEN <<>>
    ELSE IF shapes[i] = "Geometry" THEN ShapeOps(shapes, i + 1, path + 1, proto)
    ELSE <<[proto EXCEPT !.path = path]>> \o ShapeOps(shapes, i + 1, path, proto)

\* render(composition, frame, transform, alpha)
Render(c, f) ==
    /\ rpc = "idle"
    /\ comp' = c
    /\ rstack' = <<[set |-> "", idx |-> 0, frame |-> f, base |-> AffineIDENTITY,
                    chain |-> <<>>]>>
    /\ rpc' = "layer"
    /\ UNCHANGED <<walk, sink, evars>>

NextLayer == [rstack EXCEPT ![Len(rstack)].idx = @ + 1]

\* A layer is skipped: its range does not contain the frame, or it is a mask.
SkipLayer ==
    /\ rpc = "layer"
    /\ Top.idx < Len(TopLayers)
    /\ TopLayer.is_mask \/ ~Range_contains(TopLayer.frames, Top.frame)
    /\ rstack' = NextLayer
    /\ UNCHANGED <<comp, walk, sink, rpc, evars>>

\* A layer is rendered: the walk starts from its own transform and parent.
BeginLayer ==
    /\ rpc = "layer"
    /\ Top.idx < Len(TopLayers)
    /\ ~TopLayer.is_mask /\ Range_contains(TopLayer.frames, Top.frame)
    /\ walk' = [cur |-> TopLayer.parent, visited |-> {Top.idx}, steps |-> 0,
                transform |-> model_Transform_evaluate(TopLayer.transform, Top.frame).value]
    /\ rpc' = "walk"
    /\ UNCHANGED <<comp, rstack, sink, evars>>

\* The walk goes on: there is a parent, it is a layer of the set and it was
\* not visited.
WalkGoesOn_unguarded(w, layers) == w.cur.some /\ get(layers, w.cur.v).some

WalkGoesOn(w, layers) ==
    /\ w.cur.some
    /\ get(layers, w.cur.v).some
    /\ w.cur.v \notin w.visited

\* The parent's transform is composed beneath the transform so far.
WalkParent ==
    /\ rpc = "walk"
    /\ WalkGoesOn(walk, TopLayers)
    /\ walk' = [cur |-> TopLayers[walk.cur.v + 1].parent,
                visited |-> walk.visited \cup {walk.cur.v},
                steps |-> walk.steps + 1,
                transform |->
                  AffineMul(model_Transform_evaluate(
                              TopLayers[walk.cur.v + 1].transform, Top.frame).value,
                            walk.transform)]
    /\ UNCHANGED <<comp, rstack, sink, rpc, evars>>

\* The walk ends: the transform is composed with the base transform.
WalkEnd ==
    /\ rpc = "walk"
    /\ ~WalkGoesOn(walk, TopLayers)
    /\ walk' = [walk EXCEPT !.transform = AffineMul(Top.base, walk.transform)]
    /\ rpc' = "content"
    /\ UNCHANGED <<comp, rstack, sink, evars>>

Here == [set |-> Top.set, idx |-> Top.idx, frame |-> Top.frame]

\* Content::Shape: the draws of the shape tree go to the sink.
DrawContent ==
    /\ rpc = "content"
    /\ TopLayer.content.type = "Shape"
    /\ sink' = sink \o ShapeOps(TopLayer.content.shapes, 1, 0,
                                [chain |-> Append(Top.chain, Here),
                                 transform |-> walk.transform, path |-> 0])
    /\ rstack' = NextLayer
    /\ rpc' = "layer"
    /\ walk' = NoValue
    /\ UNCHANGED <<comp, evars>>

\* Content::Instance of an asset that exists: its layers are rendered at the
\* local frame with the layer's transform as the base.
EnterInstance ==
    /\ rpc = "content"
    /\ TopLayer.content.type = "Instance"
    /\ assets_get(comp, TopLayer.content.name).some
    /\ rstack' = Append(rstack,
                        [set |-> TopLayer.content.name, idx |-> 0,
                         frame |-> LocalFrame(TopLayer, Top.frame),
                         base |-> walk.transform,
                         chain |-> Append(Top.chain, Here)])
    /\ rpc' = "layer"
    /\ walk' = NoValue
    /\ UNCHANGED <<comp, sink, evars>>

\* Content::None, or an instance of an asset that does not exist: nothing.
NoContent ==
    /\ rpc = "content"
    /\ \/ TopLayer.content.type = "None"
       \/ /\ TopLayer.content.type = "Instance"
          /\ ~assets_get(comp, TopLayer.content.name).some
    /\ rstack' = NextLayer
    /\ rpc' = "layer"
    /\ walk' = NoValue
    /\ UNCHANGED <<comp, sink, evars>>

\* The layers of an asset are done: the instancing layer is done.
EndInstance ==
    /\ rpc = "layer"
    /\ Top.idx = Len(TopLayers)
    /\ Len(rstack) > 1
    /\ rstack' = [SubSeq(rstack, 1, Len(rstack) - 1)
                    EXCEPT ![Len(rstack) - 1].idx = @ + 1]
    /\ UNCHANGED <<comp, walk, sink, rpc, evars>>

\* The top-level layers are done: render returns.
EndRender ==
    /\ rpc = "layer"
    /\ Top.idx = Len(TopLayers)
    /\ Len(rstack) = 1
    /\ rstack' = <<>>
    /\ rpc' = "done"
    /\ UNCHANGED <<comp, walk, sink, evars>>

RenderStep ==
    \/ SkipLayer
    \/ BeginLayer
    \/ WalkParent
    \/ WalkEnd
    \/ DrawContent
    \/ EnterInstance
    \/ NoContent
    \/ EndInstance
    \/ EndRender

RenderNext ==
    \/ rpc = "idle" /\ \E c \in Compositions : \E f \in Frames : Render(c, f)
    \/ RenderStep

RenderSpec == Init /\ [][RenderNext]_vars

\* render runs to its end once called.
RenderFairSpec == RenderSpec /\ WF_vars(RenderStep)

-----------------------------------------------------------------------------
(* Properties *)

HasRes == res.frame >= 0

HasModelRes == mres.frame >= 0

\* Whether each keyframe-capable property the evaluator e contains is
\* non-animated, property by property.
FixedFlags(e) ==
    CASE e.kind = "Transform" ->
           {e.anchor.fixed, e.rotation.fixed, e.scale.fixed, e.skew.fixed,
            e.skew_angle.fixed}
           \cup (IF e.position.split
                 THEN {e.position.x_value.fixed, e.position.y_value.fixed}
                 ELSE {e.position.value.fixed})
      [] e.kind = "Rect" -> {e.position.fixed, e.size.fixed, e.corner_radius.fixed}
      [] e.kind = "Ellipse" -> {e.position.fixed, e.size.fixed}
      [] e.kind = "Repeater" ->
           {e.copies.fixed, e.offset.fixed, e.anchor_point.fixed, e.position.fixed,
            e.rotation.fixed, e.scale.fixed, e.start_opacity.fixed,
            e.end_opacity.fixed}
      [] e.kind = "Stroke" -> {e.width.fixed}
      [] e.kind = "Brush" ->
           IF e.variant = "Solid" THEN {e.value.fixed}
           ELSE {e.value.start_point.fixed, e.value.end_point.fixed,
                 e.value.stops.tag = "Fixed"}
      [] e.kind = "ColorStops" -> {FALSE}

NonAnimated(e) == FixedFlags(e) = {TRUE}

\* The model value was built from non-animated properties only: it was built
\* fixed, or converted from an evaluator without an animated property.
FixedOnly ==
    /\ mdl.kind # "none"
    /\ ev.kind = "none" \/ NonAnimated(ev)

\* C1: a model value (Transform, Stroke, Repeater, ColorStops, Brush) whose
\* contained properties are all non-animated reports is_fixed() and evaluates
\* to the same value at every frame (a Brush: at every frame for each alpha
\* factor); the recorded result of the last call is that value.
C1_FixedOnlyIsFixedAndConstant ==
    FixedOnly =>
        /\ Model_is_fixed(mdl)
        /\ \A an \in AlphasOf(mdl.kind) : \A f \in Frames :
             Model_evaluate(mdl, an, f).value = Model_evaluate(mdl, an, 0).value
        /\ HasModelRes => mres.value.value = Model_evaluate(mdl, mres.alpha, 0).value

C1_Witness ==
    /\ FixedOnly
    /\ mdl.kind = "Brush"
    /\ ev.kind = "Brush" /\ ev.variant = "Gradient"
    /\ HasModelRes /\ mres.frame = MaxFrame /\ mres.alpha < AlphaDen

\* C4: into_model() never changes a result: the value the model value
\* evaluates to at (alpha, frame) is the value the animated evaluator it was
\* converted from evaluates to at (alpha, frame), for Transform, Repeater,
\* Stroke and Brush (solid and gradient, every alpha factor).
C4_IntoModelKeepsEvaluate ==
    (HasModelRes /\ HasModel(ev.kind)) =>
        mres.value.value = Evaluator_evaluate(ev, mres.alpha, mres.frame)

\* C5: is_fixed() of an animated evaluator (Transform, Rect, Ellipse,
\* Repeater, Stroke, Gradient, Brush) is true if and only if every
\* keyframe-capable property it contains is non-animated.
C5_IsFixedIffNoAnimatedProperty ==
    (ev.kind \in {"Transform", "Rect", "Ellipse", "Repeater", "Stroke", "Brush"}) =>
        /\ Evaluator_is_fixed(ev) <=> NonAnimated(ev)
        /\ (ev.kind = "Brush" /\ ev.variant = "Gradient") =>
             (Gradient_is_fixed(ev.value) <=> NonAnimated(ev))

C5_Witness ==
    /\ ev.kind = "Transform"
    /\ ev.position.split
    /\ ev.position.x_value.fixed /\ ~ev.position.y_value.fixed
    /\ ev.anchor.fixed /\ ev.rotation.fixed /\ ev.scale.fixed
    /\ ev.skew.fixed /\ ev.skew_angle.fixed
    /\ ~Evaluator_is_fixed(ev)

\* The sampled anchor and position of the Transform at the frame of the last call.
SampledAnchor == Value_evaluate_point(ev.anchor, res.frame)

SampledPosition == Transform_position(ev, res.frame)

\* C6: with rotation 0, scale (100, 100) and skew 0 at the frame, a Transform
\* evaluates to translate(P) * translate(-A), the translation by P - A, for
\* a single and for a split position.
C6_PureTranslation ==
    (/\ ev.kind = "Transform" /\ HasRes
     /\ Value_evaluate(ev.rotation, res.frame) = 0
     /\ Value_evaluate_point(ev.scale, res.frame) = PointF32(100, 100)
     /\ Value_evaluate(ev.skew, res.frame) = 0) =>
        /\ AffineEq(res.value,
                    AffineMul(AffineTranslate(SampledPosition.x, SampledPosition.y),
                              AffineTranslate(-SampledAnchor.x, -SampledAnchor.y)))
        /\ AffineEq(res.value,
                    AffineTranslate(SampledPosition.x - SampledAnchor.x,
                                    SampledPosition.y - SampledAnchor.y))

C6_Witness ==
    /\ ev.kind = "Transform" /\ HasRes
    /\ Value_evaluate(ev.rotation, res.frame) = 0
    /\ Value_evaluate_point(ev.scale, res.frame) = PointF32(100, 100)
    /\ Value_evaluate(ev.skew, res.frame) = 0
    /\ ev.position.split /\ ~ev.position.y_value.fixed
    /\ SampledAnchor = PointF32(3, -2)
    /\ res.frame = 1
    /\ AffineEq(res.value, AffineTranslate(2, 5))

\* C7: the matrix of Transform::evaluate maps the anchor point A to the
\* position P, whatever the rotation, scale and skew.
C7_AnchorMapsToPosition ==
    (ev.kind = "Transform" /\ HasRes) =>
        AffineApply(res.value, SampledAnchor)
          = <<SampledPosition.x * res.value.d, SampledPosition.y * res.value.d,
              res.value.d>>

C7_Witness ==
    /\ ev.kind = "Transform" /\ HasRes
    /\ Value_evaluate(ev.rotation, res.frame) = 90
    /\ Value_evaluate(ev.skew, res.frame) = 45
    /\ Value_evaluate_point(ev.scale, res.frame) = PointF32(50, -200)
    /\ SampledAnchor = PointF32(3, -2)
    /\ AffineApply(res.value, SampledAnchor)[1] = SampledPosition.x * res.value.d


\* The sampled start and end point of the gradient brush at the frame of the
\* last call.
SampledStart == Value_evaluate_point(ev.value.start_point, res.frame)

SampledEnd == Value_evaluate_point(ev.value.end_point, res.frame)

\* Squared distance between the sampled start and end point.
Dist2 ==
    (SampledEnd.x - SampledStart.x) * (SampledEnd.x - SampledStart.x)
    + (SampledEnd.y - SampledStart.y) * (SampledEnd.y - SampledStart.y)

\* C8: a radial Gradient evaluates to a radial gradient centred at the
\* sampled start point whose radius is the Euclidean distance between the
\* sampled start and end point (to the integer below; (0,0) to (3,4) gives 5);
\* a linear one to a linear gradient from the sampled start to the sampled end.
C8_GradientRadius ==
    (ev.kind = "Brush" /\ ev.variant = "Gradient" /\ HasRes) =>
        IF ev.value.is_radial
        THEN /\ res.value.gradient = "Radial"
             /\ res.value.start_center = <<SampledStart.x, SampledStart.y>>
             /\ res.value.end_center = <<SampledStart.x, SampledStart.y>>
             /\ res.value.end_radius >= 0
             /\ res.value.end_radius * res.value.end_radius <= Dist2
             /\ (res.value.end_radius + 1) * (res.value.end_radius + 1) > Dist2
             /\ (SampledStart = PointF32(0, 0) /\ SampledEnd = PointF32(3, 4))
                  => res.value.end_radius = 5
        ELSE /\ res.value.gradient = "Linear"
             /\ res.value.start = <<SampledStart.x, SampledStart.y>>
             /\ res.value.end = <<SampledEnd.x, SampledEnd.y>>

C8_Witness ==
    /\ ev.kind = "Brush" /\ ev.variant = "Gradient" /\ HasRes
    /\ ev.value.is_radial
    /\ ~ev.value.start_point.fixed /\ ~ev.value.end_point.fixed
    /\ res.frame = 2
    /\ SampledStart = PointF32(2, 2) /\ SampledEnd = PointF32(6, 8)
    /\ res.value.end_radius = 7

\* The sampled copies property of the Repeater at the frame of the last
\* call, in units of 1 / CopyDen.
SampledCopies == Value_evaluate(ev.copies, res.frame)

\* C9: the copy count of Repeater::evaluate is the sampled copies value
\* rounded to the nearest integer, ties away from zero, and 0 when the sampled
\* value is negative; the other parameters are the sampled properties.
C9_CopiesRounded ==
    (ev.kind = "Repeater" /\ HasRes) =>
        /\ res.value.copies >= 0
        /\ SampledCopies < 0 => res.value.copies = 0
        /\ SampledCopies >= 0 =>
             /\ 2 * (res.value.copies * CopyDen - SampledCopies) <= CopyDen
             /\ 2 * (res.value.copies * CopyDen - SampledCopies) > -CopyDen
        /\ res.value.offset = Value_evaluate(ev.offset, res.frame)
        /\ res.value.rotation = Value_evaluate(ev.rotation, res.frame)
        /\ res.value.start_opacity = Value_evaluate(ev.start_opacity, res.frame)
        /\ res.value.end_opacity = Value_evaluate(ev.end_opacity, res.frame)
        /\ res.value.anchor_point
             = to_point(Value_evaluate_point(ev.anchor_point, res.frame))
        /\ res.value.position = to_point(Value_evaluate_point(ev.position, res.frame))
        /\ res.value.scale = to_vec2(Value_evaluate_point(ev.scale, res.frame))

\* A tie: the sampled value is 2.5 and the count is 3.
C9_Witness ==
    /\ ev.kind = "Repeater" /\ HasRes
    /\ ~ev.copies.fixed
    /\ 2 * SampledCopies = 5 * CopyDen
    /\ res.value.copies = 3

\* The bracketing keyframe rows of the animated ColorStops at the frame of the
\* last call are there and hold 5 * count numbers each.
RowsComplete ==
    /\ Len(ev.frames) > 0
    /\ \A ix \in {FloorIndex(ev.frames, res.frame),
                  Min(FloorIndex(ev.frames, res.frame) + 1, Len(ev.frames))} :
         /\ ix <= Len(ev.values)
         /\ Len(ev.values[ix]) >= 5 * ev.count

\* C10: ColorStops::evaluate returns exactly count stops or no stop, and no
\* stop when the time array is empty, a bracketing row is missing or a
\* bracketing row has fewer than 5 * count numbers.
C10_AllStopsOrNone ==
    (ev.kind = "ColorStops" /\ HasRes) =>
        /\ Len(res.value) \in {0, ev.count}
        /\ ~RowsComplete => res.value = <<>>
        /\ RowsComplete => Len(res.value) = ev.count

\* The first stop is there in both rows and the second is not.
C10_Witness ==
    /\ ev.kind = "ColorStops" /\ HasRes
    /\ ev.count = 2
    /\ Len(ev.frames) = 2 /\ Len(ev.values) = 2
    /\ Len(ev.values[1]) = 5 * MaxCount /\ Len(ev.values[2]) = 5
    /\ res.frame = 1
    /\ res.value = <<>>


-----------------------------------------------------------------------------
(* Properties of the renderer *)

\* The layer a chain entry of a drawing operation names.
ChainLayer(k) == LayerSet(comp, k)[k.idx + 1]

WalkBounded ==
    rpc \in {"walk", "content"} =>
        /\ walk.steps < Len(TopLayers)
        /\ Cardinality(walk.visited) = walk.steps + 1
        /\ walk.visited \subseteq 0 .. Len(TopLayers) - 1

\* The walk stopped at a layer with no parent, at a parent index outside the
\* layer set, or at an index that was visited.
WalkStopped ==
    rpc = "content" =>
        \/ ~walk.cur.some
        \/ walk.cur.v >= Len(TopLayers)
        \/ walk.cur.v \in walk.visited

\* C3: for every layer sequence, with parent indices that form a loop or
\* point outside the sequence, the parent walk takes fewer steps than there
\* are layers, stops at a layer with no parent, at an index outside the
\* sequence or at a visited index, and so ends; render then completes.
C3_ParentWalkTerminates ==
    /\ [](WalkBounded /\ WalkStopped)
    /\ (rpc = "walk") ~> (rpc = "content")
    /\ (rpc = "layer") ~> (rpc = "done")

\* The walk from the first layer went to the second and stopped at the first.
C3_Witness ==
    /\ rpc = "content"
    /\ Top.set = "" /\ Top.idx = 0
    /\ walk.steps = 1
    /\ walk.cur = Some(0)
    /\ walk.visited = {0, 1}

\* The colour c with its alpha multiplied by the alpha factor an / AlphaDen.
AlphaMultiplied(c, an) == Color(c.r, c.g, c.b, round(c.a * an, AlphaDen))

\* The brush br with the alpha factor multiplied into its colour or into the
\* colour of each of its stops.
BrushTimesAlpha(br, an) ==
    IF br.brush = "Solid"
    THEN [brush |-> "Solid", color |-> AlphaMultiplied(br.color, an)]
    ELSE [br EXCEPT !.stops =
            [i \in 1 .. Len(br.stops) |->
               [offset |-> br.stops[i].offset,
                color |-> AlphaMultiplied(br.stops[i].color, an)]]]

\* C11: model Brush::evaluate(alpha, frame) on a Fixed brush returns the
\* stored brush borrowed exactly when alpha is 1, otherwise an owned brush
\* with the alpha factor multiplied in; on an animated solid brush it returns
\* the sampled colour with its alpha multiplied by the factor, on an animated
\* gradient brush the result of the Gradient evaluator.
C11_BrushEvaluate ==
    (HasModelRes /\ mdl.kind = "Brush") =>
        IF mdl.tag = "Fixed"
        THEN /\ (mres.value.ref = "Borrowed") <=> (mres.alpha = AlphaDen)
             /\ mres.alpha = AlphaDen => mres.value.value = mdl.fixed
             /\ mres.alpha # AlphaDen =>
                  mres.value.value = BrushTimesAlpha(mdl.fixed, mres.alpha)
        ELSE /\ mres.value.ref = "Owned"
             /\ mdl.animated.variant = "Solid" =>
                  mres.value.value =
                      [brush |-> "Solid",
                       color |-> AlphaMultiplied(
                           Value_evaluate_color(mdl.animated.value, mres.frame),
                           mres.alpha)]
             /\ mdl.animated.variant = "Gradient" =>
                  mres.value.value = Gradient_evaluate(mdl.animated.value, mres.frame)

\* A Fixed brush evaluated at alpha factor 1/2: a new brush, not the stored one.
C11_Witness ==
    /\ HasModelRes /\ mdl.kind = "Brush" /\ mdl.tag = "Fixed"
    /\ mres.alpha = 1
    /\ mres.value.ref = "Owned"
    /\ mres.value.value # mdl.fixed

\* The last evaluate was on animated colour stops at a frame strictly between
\* a hold keyframe and the next keyframe, and produced stops.
HoldSampled ==
    /\ HasRes /\ ev.kind = "ColorStops"
    /\ Len(ev.frames) = 2 /\ ev.hold[1]
    /\ ev.frames[1] < res.frame /\ res.frame < ev.frames[2]
    /\ Len(res.value) > 0

\* Every colour channel of every stop is the hold keyframe's stored channel.
HoldKeepsColours ==
    HoldSampled =>
        \A i \in 1 .. Len(res.value) :
            res.value[i].color =
                Color_rgba(ev.values[1][5 * (i - 1) + 2], ev.values[1][5 * (i - 1) + 3],
                           ev.values[1][5 * (i - 1) + 4], ev.values[1][5 * (i - 1) + 5])

\* The offset of every stop is the hold keyframe's stored offset.
HoldKeepsOffsets ==
    HoldSampled =>
        \A i \in 1 .. Len(res.value) :
            res.value[i].offset = ev.values[1][5 * (i - 1) + 1]

\* C12: for animated ColorStops at a frame strictly between a hold keyframe
\* and the next keyframe, every component of every stop, the offset as well
\* as r, g, b, a, equals the hold keyframe's stored component.
C12_HoldKeepsEveryComponent == HoldKeepsColours /\ HoldKeepsOffsets

\* The sampled properties of the Transform at the frame of the last call.
SampledRotation == Value_evaluate(ev.rotation, res.frame)

SampledScale == Value_evaluate_point(ev.scale, res.frame)

SampledSkew == Value_evaluate(ev.skew, res.frame)

SampledSkewAngle == Value_evaluate(ev.skew_angle, res.frame)

\* The sampled skew clamped to [-85, +85] degrees.
ClampedSkew == IF SampledSkew < -85 THEN -85 ELSE IF SampledSkew > 85 THEN 85 ELSE SampledSkew

\* rotate(-angle) * shear(k, 0) * rotate(angle), k in hundredths.
SkewSubMatrix(k100, angle) ==
    AffineMul(AffineMul(AffineRotate(-angle), AffineSkew(k100)), AffineRotate(angle))

\* translate(P) * rotate(R) * sub * scale(S / 100) * translate(-A) of the
\* sampled properties, for the skew sub-matrix sub.
TransformWithSkew(sub) ==
    AffineNorm(
      AffineMul(AffineMul(AffineMul(AffineMul(
        AffineTranslate(SampledPosition.x, SampledPosition.y),
        AffineRotate(SampledRotation)),
        sub),
        AffineScalePercent(SampledScale.x, SampledScale.y)),
        AffineTranslate(-SampledAnchor.x, -SampledAnchor.y)))

\* C13 as stated: the skew sub-matrix of Transform::evaluate is
\* rotate(-angle) * shear(tan(skew), 0) * rotate(angle) with skew the sampled
\* skew clamped to [-85, +85] degrees and angle the sampled skew angle, and
\* the identity when the sampled skew is 0.
C13_SkewSubMatrixAsStated ==
    (ev.kind = "Transform" /\ HasRes) =>
        res.value =
            TransformWithSkew(
                IF SampledSkew = 0 THEN AffineIDENTITY
                ELSE SkewSubMatrix(Tan100(ClampedSkew), SampledSkewAngle))

\* C13 amended: the skew sub-matrix of Transform::evaluate is
\* rotate(-angle) * shear(tan(-skew), 0) * rotate(angle) with skew the sampled
\* skew clamped to [-85, +85] degrees, negated before its tangent is taken,
\* and angle the sampled skew angle; it is the identity when the sampled skew
\* is 0.
C13_SkewSubMatrixNegated ==
    (ev.kind = "Transform" /\ HasRes) =>
        res.value =
            TransformWithSkew(
                IF SampledSkew = 0 THEN AffineIDENTITY
                ELSE SkewSubMatrix(Tan100(-ClampedSkew), SampledSkewAngle))

\* A skew of 90 degrees, clamped to 85, along the angle of sine 4/5.
C13_Witness ==
    /\ ev.kind = "Transform" /\ HasRes
    /\ SampledSkew = 90
    /\ SampledSkewAngle = 53
    /\ SampledRotation = 90
    /\ res.value # TransformWithSkew(AffineIDENTITY)

\* The sequence p is the beginning of the sequence q.
IsPrefix(p, q) == Len(p) <= Len(q) /\ \A i \in 1 .. Len(p) : q[i] = p[i]

\* A step of the traversal of a group keeps the elements of the path buffer
\* as a prefix, and a Draw is issued against the whole buffer and leaves it.
OnlyAppends ==
    /\ IsPrefix(pathbuf, pathbuf')
    /\ Len(drawn') > Len(drawn) =>
         /\ drawn'[Len(drawn')] = pathbuf
         /\ pathbuf' = pathbuf

\* C14: Geometry::evaluate only appends to the path buffer: for every
\* variant (fixed path, rect, ellipse, spline) and every frame the elements
\* in the buffer before the call are a prefix of the buffer after it; a Draw
\* does not clear the buffer, so a later Draw of the group is issued against
\* all geometry accumulated so far.
C14_GeometryOnlyAppends == [][OnlyAppends]_vars

\* Geometry, Draw, Geometry, Draw: the second Draw saw the path of the first
\* and the elements appended after it.
C14_Witness ==
    /\ op = "group" /\ nshapes = 4
    /\ Len(drawn) = 2
    /\ Len(drawn[1]) > 0
    /\ Len(drawn[2]) > Len(drawn[1])
    /\ IsPrefix(drawn[1], drawn[2])
    /\ drawn[2] = pathbuf
    /\ ev.kind = "Geometry" /\ ev.variant = "Rect"

\* The bracketing keyframes of the spline at the frame of the last call.
SplineBracket == frames_and_weight(ev.times, ev.hold, res.frame)

\* The time array is empty, or the values array has no entry at one of the
\* two bracketing keyframe indices.
SplineMalformed ==
    \/ Len(ev.times) = 0
    \/ SplineBracket.v.ix0 > Len(ev.values)
    \/ SplineBracket.v.ix1 > Len(ev.values)

\* The first control point tweened between the bracketing keyframes.
SplineFirstPoint ==
    to_point(tween_point(ev.values[SplineBracket.v.ix0][1],
                         ev.values[SplineBracket.v.ix1][1],
                         SplineBracket.v.tn, SplineBracket.v.td))

\* C15: Spline::evaluate returns false and leaves the caller's path buffer as
\* it was when the time array is empty or the values array has no entry at a
\* bracketing keyframe index; it returns true only on well-formed data, after
\* appending the tweened path to the buffer.
C15_SplineMalformedDrawsNothing ==
    (ev.kind = "Spline" /\ HasRes) =>
        /\ res.value \in BOOLEAN
        /\ SplineMalformed => (res.value = FALSE /\ pathbuf = res.before)
        /\ res.value = TRUE =>
             /\ ~SplineMalformed
             /\ IsPrefix(res.before, pathbuf)
             /\ Len(pathbuf) > Len(res.before)
             /\ pathbuf[Len(res.before) + 1] = PathEl("MoveTo", <<SplineFirstPoint>>)

\* A spline with two times and one value row, evaluated on a buffer that
\* holds elements: false, and the buffer is as it was.
C15_Witness ==
    /\ ev.kind = "Spline" /\ HasRes
    /\ Len(ev.times) = 2 /\ Len(ev.values) = 1
    /\ res.value = FALSE
    /\ Len(res.before) > 0
    /\ pathbuf = res.before

=============================================================================
